---------------------------- MODULE Spec2Model ----------------------------
(***************************************************************************)
(* Model of the recording pipeline of Dialect_recognition:                 *)
(*   - StationMonitor               (scheduled_recorder.py, lines 29-63)   *)
(*   - ScheduledRecorder timer loop (scheduled_recorder.py, lines 65-232)  *)
(*   - verify_stream_url / verify_stations_health                          *)
(*                                  (arabic_radio_recorder.py, 179-224)    *)
(*   - extract_direct_stream_url / record_stream                           *)
(*                                  (arabic_radio_recorder.py, 32-177)     *)
(*   - ScheduledRecorder.schedule_all_cities                               *)
(*                                  (scheduled_recorder.py, lines 188-217) *)
(* Six specifications share the variables:                                 *)
(*   SpecMonitor  arbitrary calls on one StationMonitor                    *)
(*   Spec         ScheduledRecorder.run driving record_city and retries    *)
(*   SpecVerify   one call of verify_stations_health on a thread pool      *)
(*   SpecProbe    one call of verify_stream_url                            *)
(*   SpecSlots    one call of schedule_all_cities                          *)
(*   SpecResolve  one call of record_stream                                *)
(***************************************************************************)
EXTENDS Integers, Sequences, FiniteSets, TLC

VARIABLES
    monitor,      \* StationMonitor: max_retries, retry_delay, failed_stations,
                  \*   working_stations, last_verification
    now,          \* wall clock, in seconds (datetime.datetime.now())
    last_call,    \* history: the monitor method called last, its argument and result
    consec,       \* history: per station, failures in a row (SpecMonitor: mark_failed
                  \*   calls since the last mark_working; Spec: failed recordings
                  \*   since the last successful one)
    jobs,         \* schedule.jobs: the job list of the scheduling library
    next_job_id,  \* history: identity given to the next job appended to jobs
    loop,         \* position of ScheduledRecorder.run / schedule.run_pending
    ran,          \* history: the job function that ran last, and how it ended
    log,          \* the CSV recording log: whether the file exists, and its rows
    vs,           \* state of one verify_stations_health call
    hist,         \* history of ScheduledRecorder: the URL last handed to
                  \*   verify_stream_url per station (probed); of the last
                  \*   record_city, the stations found alive (up) and those the
                  \*   loop took, in order (processed); the record_stream calls
                  \*   that returned a file (recordings) and those of them whose
                  \*   log_recording raised (log_failed)
    probe,        \* state of one verify_stream_url call
    res,          \* state of one record_stream call, up to the encoder
    sched         \* state of one schedule_all_cities call

vars == <<monitor, now, last_call, consec, jobs, next_job_id, loop, ran, log, vs,
          hist, probe, res, sched>>

---------------------------------------------------------------------------
(* Bounds of the model *)

MaxRetriesBound == 3      \* SpecMonitor tries max_retries in 1..MaxRetriesBound
MaxClock == 1             \* SpecMonitor: the clock runs over 0..MaxClock
MaxLoops == 3             \* Spec: turns of the while loop of ScheduledRecorder.run
MaxWorkersBound == 2      \* SpecVerify tries max_workers in 1..MaxWorkersBound
MaxWindowHours == 2       \* SpecSlots: windows of 0..MaxWindowHours hours
MaxCities == 3            \* SpecSlots: catalogs of 0..MaxCities cities
MaxElements == 2          \* SpecResolve: pages of 0..MaxElements elements
MaxLines == 2             \* SpecResolve: playlists of 0..MaxLines lines

(* Program constants *)

DefaultMaxRetries == 3    \* StationMonitor.__init__(max_retries=3)
DefaultRetryDelay == 300  \* StationMonitor.__init__(retry_delay=300), seconds

Stations == {"s1", "s2"}

\* mark_failed is capped so that the failure count stays finite; the cap lies
\* above every max_retries tried, so counts beyond max_retries are reached.
MaxFailures == MaxRetriesBound + 2

---------------------------------------------------------------------------
(* dict helpers *)

EmptyDict == [k \in {} |-> 0]

\* dict.get(k, default)
Get(d, k, default) == IF k \in DOMAIN d THEN d[k] ELSE default

\* d[k] = v
Put(d, k, v) == [x \in (DOMAIN d) \cup {k} |-> IF x = k THEN v ELSE d[x]]

\* del d[k]
Del(d, k) == [x \in (DOMAIN d) \ {k} |-> d[x]]

---------------------------------------------------------------------------
(* StationMonitor *)

\* StationMonitor.__init__
NewMonitor(max_retries, retry_delay) ==
    [max_retries       |-> max_retries,
     retry_delay       |-> retry_delay,
     failed_stations   |-> EmptyDict,
     working_stations  |-> {},
     last_verification |-> EmptyDict]

\* mutant: the station is not taken out of working_stations
mark_failed_keeps_working(m, station_id) ==
    [m EXCEPT !.failed_stations =
        Put(m.failed_stations, station_id, Get(m.failed_stations, station_id, 0) + 1)]

\* mutant: the count starts over once the retries are used up
mark_failed_restarts(m, station_id) ==
    [m EXCEPT !.working_stations = m.working_stations \ {station_id},
              !.failed_stations =
                  Put(m.failed_stations, station_id,
                      IF Get(m.failed_stations, station_id, 0) >= m.max_retries
                      THEN 1
                      ELSE Get(m.failed_stations, station_id, 0) + 1)]

\* mutant: every failed station's count is bumped, not only station_id's
mark_failed_bumps_all(m, station_id) ==
    [m EXCEPT !.working_stations = m.working_stations \ {station_id},
              !.failed_stations =
                  [x \in (DOMAIN m.failed_stations) \cup {station_id} |->
                      Get(m.failed_stations, x, 0) + 1]]

\* StationMonitor.mark_failed
mark_failed(m, station_id) ==
    [m EXCEPT !.working_stations = m.working_stations \ {station_id},
              !.failed_stations =
                  Put(m.failed_stations, station_id,
                      Get(m.failed_stations, station_id, 0) + 1)]

\* mutant: the failure count is not cleared
mark_working_keeps_count(m, station_id, t) ==
    [m EXCEPT !.working_stations = m.working_stations \cup {station_id},
              !.last_verification = Put(m.last_verification, station_id, t)]

\* StationMonitor.mark_working; t is datetime.datetime.now()
mark_working(m, station_id, t) ==
    [m EXCEPT !.working_stations = m.working_stations \cup {station_id},
              !.failed_stations =
                  IF station_id \in DOMAIN m.failed_stations
                  THEN Del(m.failed_stations, station_id)
                  ELSE m.failed_stations,
              !.last_verification = Put(m.last_verification, station_id, t)]

\* mutant: one retry too many
should_retry_le(m, station_id) ==
    Get(m.failed_stations, station_id, 0) <= m.max_retries

\* StationMonitor.should_retry
should_retry(m, station_id) ==
    Get(m.failed_stations, station_id, 0) < m.max_retries

\* 2^n
RECURSIVE Pow2(_)
Pow2(n) == IF n = 0 THEN 1 ELSE 2 * Pow2(n - 1)

\* mutant: exponential backoff
get_retry_delay_exp(m, station_id) ==
    m.retry_delay * Pow2(Get(m.failed_stations, station_id, 0))

\* StationMonitor.get_retry_delay
get_retry_delay(m, station_id) ==
    m.retry_delay * (Get(m.failed_stations, station_id, 0) + 1)

\* StationMonitor.get_status_report: the three numbers the text is made of
get_status_report(m) ==
    [working |-> Cardinality(m.working_stations),
     failed  |-> Cardinality(DOMAIN m.failed_stations),
     total   |-> Cardinality(m.working_stations) + Cardinality(DOMAIN m.failed_stations)]


---------------------------------------------------------------------------
(* Values of the variables a specification does not use *)

NoCall == [op |-> "none", sid |-> "none", ret |-> "none", seq |-> 0, again |-> FALSE]

LoopOff == [pc |-> "off", runnable |-> << >>, iter |-> 0]
NoRun   == [id |-> 0, kind |-> "none", sid |-> "none", outcome |-> "none", seq |-> 0]
NoLog   == [exists |-> FALSE, rows |-> << >>]
VsOff   == [pc |-> "off"]
NoHist  == [probed |-> EmptyDict, up |-> {}, processed |-> << >>,
            recordings |-> 0, log_failed |-> 0,
            city |-> "none", stations |-> {},
            unresolved |-> {}, encoded |-> {}, saved |-> {}]
ProbeOff == [pc |-> "off"]
ResOff  == [pc |-> "off"]
SchedOff == [pc |-> "off"]

\* the record of a call of a monitor method, after the call recorded in c:
\* seq flips at every call, again says that the call before was the same call
Call(c, op, sid, ret) ==
    [op |-> op, sid |-> sid, ret |-> ret, seq |-> 1 - c.seq,
     again |-> (c.op = op /\ c.sid = sid)]

\* what the monitor says about one station
Status(m, s) ==
    IF s \in m.working_stations /\ s \in DOMAIN m.failed_stations THEN "both"
    ELSE IF s \in m.working_stations THEN "Working"
    ELSE IF s \in DOMAIN m.failed_stations THEN "Failed"
    ELSE "unseen"

FailureCount(m, s) == Get(m.failed_stations, s, 0)

---------------------------------------------------------------------------
(* SpecMonitor: any sequence of calls on one StationMonitor *)

RetryDelays == {1, DefaultRetryDelay}

InitMonitor ==
    /\ \E mr \in 1..MaxRetriesBound, rd \in RetryDelays : monitor = NewMonitor(mr, rd)
    /\ now = 0
    /\ last_call = NoCall
    /\ consec = [s \in Stations |-> 0]
    /\ jobs = << >>
    /\ next_job_id = 0
    /\ loop = LoopOff
    /\ ran = NoRun
    /\ log = NoLog
    /\ vs = VsOff
    /\ hist = NoHist
    /\ probe = ProbeOff
    /\ res = ResOff
    /\ sched = SchedOff

CallMarkFailed(sid) ==
    /\ FailureCount(monitor, sid) < MaxFailures
    /\ consec[sid] < MaxFailures
    /\ monitor' = mark_failed(monitor, sid)
    /\ last_call' = Call(last_call, "mark_failed", sid, "none")
    /\ consec' = [consec EXCEPT ![sid] = @ + 1]
    /\ UNCHANGED <<now, jobs, next_job_id, loop, ran, log, vs, hist, probe, res, sched>>

CallMarkWorking(sid) ==
    /\ monitor' = mark_working(monitor, sid, now)
    /\ last_call' = Call(last_call, "mark_working", sid, "none")
    /\ consec' = [consec EXCEPT ![sid] = 0]
    /\ UNCHANGED <<now, jobs, next_job_id, loop, ran, log, vs, hist, probe, res, sched>>

CallShouldRetry(sid) ==
    /\ last_call' = Call(last_call, "should_retry", sid, should_retry(monitor, sid))
    /\ UNCHANGED <<monitor, now, consec, jobs, next_job_id, loop, ran, log, vs, hist, probe, res, sched>>

CallGetRetryDelay(sid) ==
    /\ last_call' = Call(last_call, "get_retry_delay", sid, get_retry_delay(monitor, sid))
    /\ UNCHANGED <<monitor, now, consec, jobs, next_job_id, loop, ran, log, vs, hist, probe, res, sched>>

CallGetStatusReport ==
    /\ last_call' = Call(last_call, "get_status_report", "none", get_status_report(monitor))
    /\ UNCHANGED <<monitor, now, consec, jobs, next_job_id, loop, ran, log, vs, hist, probe, res, sched>>

\* time passes between two calls
ClockTick ==
    /\ now < MaxClock
    /\ now' = now + 1
    /\ UNCHANGED <<monitor, last_call, consec, jobs, next_job_id, loop, ran, log, vs, hist, probe, res, sched>>

NextMonitor ==
    \/ \E sid \in Stations : CallMarkFailed(sid)
    \/ \E sid \in Stations : CallMarkWorking(sid)
    \/ \E sid \in Stations : CallShouldRetry(sid)
    \/ \E sid \in Stations : CallGetRetryDelay(sid)
    \/ CallGetStatusReport
    \/ ClockTick

SpecMonitor == InitMonitor /\ [][NextMonitor]_vars

\* the step is a call of a monitor method
IsCall == last_call'.seq # last_call.seq

---------------------------------------------------------------------------
(* Claims on StationMonitor, checked under SpecMonitor *)

\* C1: after n consecutive mark_failed(id) with no mark_working(id) in between,
\* from an unseen or Working station, should_retry(id) is true iff n < max_retries:
\* true for every n below max_retries, false at n = max_retries and beyond.
C1_ShouldRetryIffBelowMax ==
    /\ \A s \in Stations :
          should_retry(monitor, s) <=> (consec[s] < monitor.max_retries)
    /\ last_call.op = "should_retry" =>
          (last_call.ret <=> (consec[last_call.sid] < monitor.max_retries))

C1_Witness ==
    /\ last_call.op = "should_retry"
    /\ consec[last_call.sid] = monitor.max_retries
    /\ monitor.max_retries >= 2
    /\ last_call.ret = FALSE

\* C2: no station is both Working and Failed: working_stations and the keys of
\* failed_stations are disjoint in every reachable state.
C2_WorkingFailedDisjoint ==
    monitor.working_stations \cap (DOMAIN monitor.failed_stations) = {}

\* a station that was Working and has just been marked failed
C2_Witness ==
    /\ last_call.op = "mark_failed"
    /\ consec[last_call.sid] = 1
    /\ last_call.sid \in DOMAIN monitor.last_verification
    /\ Status(monitor, last_call.sid) = "Failed"
    /\ monitor.working_stations # {}

\* C3: mark_failed(id) moves id to Failed with its failure count raised by one
\* (from 0 when id was Working or unseen) and leaves the status and failure
\* count of every other station as they were.
C3_MarkFailedStep ==
    [][ (IsCall /\ last_call'.op = "mark_failed") =>
          LET s == last_call'.sid IN
          /\ Status(monitor', s) = "Failed"
          /\ FailureCount(monitor', s) = FailureCount(monitor, s) + 1
          /\ Status(monitor, s) \in {"Working", "unseen"} =>
                FailureCount(monitor', s) = 1
          /\ \A o \in Stations \ {s} :
                /\ Status(monitor', o) = Status(monitor, o)
                /\ FailureCount(monitor', o) = FailureCount(monitor, o) ]_vars

\* mark_failed has acted on a Working station while another station is Failed(2)
C3_Witness ==
    /\ last_call.op = "mark_failed"
    /\ consec[last_call.sid] = 1
    /\ last_call.sid \in DOMAIN monitor.last_verification
    /\ \E o \in Stations \ {last_call.sid} : FailureCount(monitor, o) = 2

\* C4: mark_working(id) moves id to Working with failure count 0 from any prior
\* state, and a second mark_working(id) right after the first leaves
\* working_stations and failed_stations as the first left them.
C4_MarkWorkingStep ==
    [][ (IsCall /\ last_call'.op = "mark_working") =>
          LET s == last_call'.sid IN
          /\ Status(monitor', s) = "Working"
          /\ FailureCount(monitor', s) = 0
          /\ (last_call.op = "mark_working" /\ last_call.sid = s) =>
                /\ monitor'.working_stations = monitor.working_stations
                /\ monitor'.failed_stations = monitor.failed_stations ]_vars

\* mark_working called twice in a row on one station, the second call at the
\* last clock value
C4_Witness ==
    /\ last_call.op = "mark_working"
    /\ last_call.again
    /\ monitor.last_verification[last_call.sid] = MaxClock
    /\ Status(monitor, last_call.sid) = "Working"

\* C5: in any single step a station that is Failed before and after the step
\* has a failure count that did not decrease.
C5_CountNonDecreasingWhileFailed ==
    [][ \A s \in Stations :
          (Status(monitor, s) = "Failed" /\ Status(monitor', s) = "Failed") =>
             FailureCount(monitor', s) >= FailureCount(monitor, s) ]_vars

\* a Failed station has been marked failed again
C5_Witness ==
    /\ last_call.op = "mark_failed"
    /\ last_call.again
    /\ FailureCount(monitor, last_call.sid) = 3

\* C6: get_retry_delay(id) is retry_delay * (failure count + 1), the count being 0
\* for a Working or unseen station; after the 2nd consecutive mark_failed it is
\* 3 * retry_delay.
C6_RetryDelayLinear ==
    /\ \A s \in Stations :
          /\ get_retry_delay(monitor, s) = monitor.retry_delay * (consec[s] + 1)
          /\ Status(monitor, s) \in {"Working", "unseen"} =>
                get_retry_delay(monitor, s) = monitor.retry_delay
          /\ consec[s] = 2 => get_retry_delay(monitor, s) = 3 * monitor.retry_delay
    /\ last_call.op = "get_retry_delay" =>
          last_call.ret = monitor.retry_delay * (consec[last_call.sid] + 1)

C6_Witness ==
    /\ last_call.op = "get_retry_delay"
    /\ consec[last_call.sid] = 2
    /\ monitor.retry_delay = DefaultRetryDelay
    /\ last_call.ret = 900

---------------------------------------------------------------------------
(* URLs and the liveness probe (arabic_radio_recorder.py) *)

\* A URL, as far as the code looks at it: urlparse(url).scheme, the suffix of
\* urlparse(url).path, and whether a query string follows the path (with one,
\* url.endswith(suffix) is false while parsed.path.endswith(suffix) is true).
MakeUrl(scheme, host, ext, query) ==
    [scheme |-> scheme, host |-> host, ext |-> ext, query |-> query]

DirectUrl   == MakeUrl("http",  "radio-a", ".mp3",  FALSE)
PageUrl     == MakeUrl("https", "radio-b", ".html", FALSE)
PlaylistUrl == MakeUrl("http",  "radio-c", ".m3u",  FALSE)
RtmpUrl     == MakeUrl("rtmp",  "radio-d", ".flv",  FALSE)

\* a URL urlparse cannot split: urlparse raises ValueError on it
BadUrl      == MakeUrl("http",  "[",       ".mp3",  FALSE)

\* What the network does to one probe: the request raises (error names the
\* exception), or a response comes with a status code and a body read as a
\* sequence of chunks, or (read_error) reading the body raises.
NetOutcomes ==
    { [error |-> "Timeout",         status |-> 0,   chunks |-> << >>, read_error |-> FALSE],
      [error |-> "ConnectionError", status |-> 0,   chunks |-> << >>, read_error |-> FALSE],
      [error |-> "none", status |-> 200, chunks |-> <<"data">>,     read_error |-> FALSE],
      [error |-> "none", status |-> 200, chunks |-> <<"", "data">>, read_error |-> FALSE],
      [error |-> "none", status |-> 200, chunks |-> << >>,          read_error |-> FALSE],
      [error |-> "none", status |-> 200, chunks |-> << >>,          read_error |-> TRUE],
      [error |-> "none", status |-> 302, chunks |-> << >>,          read_error |-> FALSE],
      [error |-> "none", status |-> 404, chunks |-> <<"data">>,     read_error |-> FALSE] }

\* url.endswith(('.m3u8', '.m3u', '.pls'))
EndsWithPlaylistSuffix(url) ==
    url.ext \in {".m3u8", ".m3u", ".pls"} /\ ~url.query

\* how a run of the try block of verify_stream_url ends: ret is "True", "False"
\* or "raise" (then exc names the exception); head and get count the requests
\* made, chunks_read the chunks taken from iter_content
ProbeEnd(ret, exc, head, get, chunks_read) ==
    [ret |-> ret, exc |-> exc, head |-> head, get |-> get, chunks_read |-> chunks_read]

\* mutant: the loop over iter_content goes on to the first non-empty chunk
verify_stream_url_try_reads_on(url, net) ==
    IF url.host = "[" THEN ProbeEnd("raise", "ValueError", 0, 0, 0)
    ELSE IF url.scheme \in {"http", "https"}
    THEN IF EndsWithPlaylistSuffix(url)
         THEN IF net.error # "none" THEN ProbeEnd("raise", net.error, 1, 0, 0)
              ELSE ProbeEnd(IF net.status = 200 THEN "True" ELSE "False", "none", 1, 0, 0)
         ELSE IF net.error # "none" THEN ProbeEnd("raise", net.error, 0, 1, 0)
              ELSE IF net.status = 200
              THEN IF net.read_error
                   THEN ProbeEnd("raise", "ChunkedEncodingError", 0, 1, 0)
                   ELSE IF \E i \in 1..Len(net.chunks) : net.chunks[i] # ""
                   THEN ProbeEnd("True", "none", 0, 1,
                                 CHOOSE i \in 1..Len(net.chunks) :
                                    /\ net.chunks[i] # ""
                                    /\ \A j \in 1..(i - 1) : net.chunks[j] = "")
                   ELSE ProbeEnd("False", "none", 0, 1, Len(net.chunks))
              ELSE ProbeEnd("False", "none", 0, 1, 0)
    ELSE ProbeEnd("True", "none", 0, 0, 0)

\* the try block of verify_stream_url
verify_stream_url_try(url, net) ==
    IF url.host = "[" THEN ProbeEnd("raise", "ValueError", 0, 0, 0)
    ELSE IF url.scheme \in {"http", "https"}
    THEN IF EndsWithPlaylistSuffix(url)
         THEN IF net.error # "none" THEN ProbeEnd("raise", net.error, 1, 0, 0)
              ELSE ProbeEnd(IF net.status = 200 THEN "True" ELSE "False", "none", 1, 0, 0)
         ELSE IF net.error # "none" THEN ProbeEnd("raise", net.error, 0, 1, 0)
              ELSE IF net.status = 200
              THEN IF net.read_error
                   THEN ProbeEnd("raise", "ChunkedEncodingError", 0, 1, 0)
                   ELSE IF net.chunks = << >>
                   THEN ProbeEnd("False", "none", 0, 1, 0)
                   ELSE ProbeEnd(IF net.chunks[1] # "" THEN "True" ELSE "False",
                                 "none", 0, 1, 1)
              ELSE ProbeEnd("False", "none", 0, 1, 0)
    ELSE ProbeEnd("True", "none", 0, 0, 0)

\* mutant: except requests.Timeout in place of except Exception
verify_stream_url_call_timeout_only(url, net) ==
    LET r == verify_stream_url_try(url, net)
    IN IF r.ret = "raise" /\ r.exc = "Timeout" THEN [r EXCEPT !.ret = "False"] ELSE r

\* verify_stream_url with its except Exception: return False
verify_stream_url_call(url, net) ==
    LET r == verify_stream_url_try(url, net)
    IN IF r.ret = "raise" THEN [r EXCEPT !.ret = "False"] ELSE r

\* what verify_stream_url returns
verify_stream_url(url, net) == verify_stream_url_call(url, net).ret = "True"

\* the results verify_stream_url can give for a URL
ProbeResults(url) == {verify_stream_url(url, n) : n \in NetOutcomes}

\* one result per entry of stations_dict, as the probes can return them
ProbeMaps(stations_dict) ==
    {r \in [DOMAIN stations_dict -> BOOLEAN] :
        \A sid \in DOMAIN stations_dict : r[sid] \in ProbeResults(stations_dict[sid])}

\* all orders in which the elements of S can come
Perms(S) ==
    {q \in [1..Cardinality(S) -> S] : \A i, j \in 1..Cardinality(S) : i # j => q[i] # q[j]}

---------------------------------------------------------------------------
(* The catalog (ArabicRadioStations) *)

\* stations_by_city, as json.load returns it; a key need not be lower case
stations_by_city ==
    [c \in {"riyadh", "Cairo"} |->
        IF c = "riyadh"
        THEN [sid \in {"s1", "s2"} |-> IF sid = "s1" THEN DirectUrl ELSE PageUrl]
        ELSE [sid \in {"s3"} |-> PlaylistUrl]]

\* stations_by_country
stations_by_country ==
    [c \in {"SA"} |-> [sid \in {"s1"} |-> DirectUrl]]

\* the keys of stations_by_city in the order of the document
CityOrder == <<"riyadh", "Cairo">>

\* str.lower on the city keys in use
Lower(c) == IF c = "Cairo" THEN "cairo" ELSE c

\* the keys of stations_by_country in the order of the document
CountryOrder == <<"SA">>

\* a.update(b)
Update(a, b) ==
    [k \in (DOMAIN a) \cup (DOMAIN b) |-> IF k \in DOMAIN b THEN b[k] ELSE a[k]]

\* for st in d.values(): acc.update(st), the values taken in the order of keys
RECURSIVE UpdateAll(_, _, _)
UpdateAll(acc, d, keys) ==
    IF keys = << >> THEN acc
    ELSE UpdateAll(Update(acc, d[Head(keys)]), d, Tail(keys))

\* ArabicRadioStations.get_all_stations
get_all_stations ==
    UpdateAll(UpdateAll(EmptyDict, stations_by_country, CountryOrder),
              stations_by_city, CityOrder)

\* ArabicRadioStations.get_stations_by_city
get_stations_by_city(city) ==
    IF Lower(city) \in DOMAIN stations_by_city
    THEN stations_by_city[Lower(city)]
    ELSE EmptyDict

\* ScheduledRecorder.get_cities
get_cities == CityOrder

AllStations == DOMAIN get_all_stations

---------------------------------------------------------------------------
(* The scheduling library as ScheduledRecorder uses it.                     *)
(* schedule.every(n).<unit>.do(f, args) appends a job to schedule.jobs with  *)
(* next_run = now + n units; schedule.run_pending() runs, in the order of   *)
(* next_run, every job whose next_run has come, and after a job function    *)
(* returns sets the job's next_run to now + its interval. A job leaves the   *)
(* list only when its function returns schedule.CancelJob, which no job     *)
(* function of the recorder does.                                           *)

\* duration = 30
RecordSeconds == 30

\* schedule.every(1).hours
StatusEverySeconds == 3600

\* what a run of record_stream can come to: a file, RuntimeError (no stream
\* URL found in an HTML page), CalledProcessError (the encoder failed); and
\* log_error: a file, and then log_recording raises (the log cannot be opened)
IsHtml(url) == url.ext \in {".htm", ".html"}
RecordOutcomes(url) ==
    {"ok", "encoder_error", "log_error"} \cup (IF IsHtml(url) THEN {"not_found"} ELSE {})

\* the header row; a data row holds the time stamp in the file name
\* radio_<ts>.mp3, the duration, the time recorded and the city
Header == [kind |-> "header", file |-> 0, duration |-> 0, time |-> 0, city |-> "City"]

NoUrl == MakeUrl("", "", "", FALSE)

\* The state the job functions work on, as one value
World == [monitor |-> monitor, jobs |-> jobs, next_job_id |-> next_job_id,
          now |-> now, log |-> log, consec |-> consec, hist |-> hist]

\* schedule.every(interval).seconds.do(job_func, ...): the job made by job `by`
every_do(w, interval, kind, city, sid, url, by) ==
    [w EXCEPT
       !.jobs = Append(@, [id |-> w.next_job_id, kind |-> kind, interval |-> interval,
                           next_run |-> w.now + interval, city |-> city, sid |-> sid,
                           url |-> url, made_at |-> w.now, made_by |-> by,
                           runs |-> 0, first_run |-> 0, ran_at |-> 0, fails |-> 0]),
       !.next_job_id = @ + 1]

\* mutant: the header row is written at every call
log_recording_always_header(w, sound_filename, duration, time_recorded, city) ==
    LET row == [kind |-> "data", file |-> sound_filename, duration |-> duration,
                time |-> time_recorded, city |-> city]
    IN [w EXCEPT !.log = [exists |-> TRUE, rows |-> w.log.rows \o <<Header, row>>]]

\* ScheduledRecorder.log_recording
log_recording(w, sound_filename, duration, time_recorded, city) ==
    LET row == [kind |-> "data", file |-> sound_filename, duration |-> duration,
                time |-> time_recorded, city |-> city]
    IN [w EXCEPT !.log =
          [exists |-> TRUE,
           rows |-> IF w.log.exists THEN Append(w.log.rows, row)
                    ELSE <<Header, row>>]]

\* record_stream returned a file after RecordSeconds: the try block of
\* record_city and of retry_recording up to log_recording
recorded(w, sid, city) ==
    LET t == w.now + RecordSeconds
    IN [w EXCEPT !.now = t,
                 !.monitor = mark_working(@, sid, t),
                 !.consec = [@ EXCEPT ![sid] = 0],
                 !.hist.recordings = @ + 1]

\* log_recording raises: the log cannot be opened or written
log_recording_raises(w) == [w EXCEPT !.hist.log_failed = @ + 1]

\* the except block of record_city
record_city_except(w, sid, url, city, by) ==
    LET m == mark_failed(w.monitor, sid)
        w1 == [w EXCEPT !.monitor = m]
    IN IF should_retry(m, sid)
       THEN every_do(w1, get_retry_delay(m, sid), "retry_recording", city, sid, url, by)
       ELSE w1

\* the except block of retry_recording
retry_recording_except(w, sid, url, city, by) ==
    [w EXCEPT !.monitor = mark_failed(@, sid)]

\* what record_stream did for sid in this run of record_city: it raised
\* RuntimeError before the encoder (unresolved), it ran ffmpeg (encoded), it
\* returned the file (saved)
record_stream_trace(w, sid, outcome) ==
    [w EXCEPT !.hist.unresolved = IF outcome = "not_found" THEN @ \cup {sid} ELSE @,
              !.hist.encoded = IF outcome # "not_found" THEN @ \cup {sid} ELSE @,
              !.hist.saved = IF outcome \in {"ok", "log_error"} THEN @ \cup {sid} ELSE @]

\* mutant: when no stream URL is found in the page, ffmpeg is run on the URL
\* of the page
record_city_station_encodes_unresolved(w, sid, url, city, outcome, by) ==
    LET w0 == [record_stream_trace(w, sid, outcome)
                  EXCEPT !.hist.encoded = @ \cup {sid}]
    IN IF outcome = "ok"
       THEN LET w1 == recorded(w0, sid, city)
            IN log_recording(w1, w.now, RecordSeconds, w1.now, city)
       ELSE IF outcome = "log_error"
       THEN record_city_except(log_recording_raises(recorded(w0, sid, city)),
                               sid, url, city, by)
       ELSE record_city_except([w0 EXCEPT !.consec = [@ EXCEPT ![sid] = @ + 1]],
                               sid, url, city, by)

\* one turn of the loop of record_city over working_stations.items()
record_city_station(w, sid, url, city, outcome, by) ==
    LET w0 == record_stream_trace(w, sid, outcome)
    IN IF outcome = "ok"
       THEN LET w1 == recorded(w0, sid, city)
            IN log_recording(w1, w.now, RecordSeconds, w1.now, city)
       ELSE IF outcome = "log_error"
       THEN record_city_except(log_recording_raises(recorded(w0, sid, city)),
                               sid, url, city, by)
       ELSE record_city_except([w0 EXCEPT !.consec = [@ EXCEPT ![sid] = @ + 1]],
                               sid, url, city, by)

\* mutant: the loop without its try ... except: it ends at the first
\* station whose recording fails
RECURSIVE record_city_loop_ends_at_failure(_, _, _, _, _, _)
record_city_loop_ends_at_failure(w, order, working_stations, city, outcomes, by) ==
    IF order = << >> THEN w
    ELSE LET w1 == record_city_station(
                      [w EXCEPT !.hist.processed = Append(@, Head(order))],
                      Head(order), working_stations[Head(order)], city,
                      outcomes[Head(order)], by)
         IN IF outcomes[Head(order)] = "ok"
            THEN record_city_loop_ends_at_failure(w1, Tail(order), working_stations,
                                                  city, outcomes, by)
            ELSE w1

\* the loop of record_city: the stations of order in turn
RECURSIVE record_city_loop(_, _, _, _, _, _)
record_city_loop(w, order, working_stations, city, outcomes, by) ==
    IF order = << >> THEN w
    ELSE record_city_loop(
            record_city_station(
               [w EXCEPT !.hist.processed = Append(@, Head(order))],
               Head(order), working_stations[Head(order)], city,
               outcomes[Head(order)], by),
            Tail(order), working_stations, city, outcomes, by)

\* mutant: the stations whose probe returned dead are marked failed, as
\* verify_all_stations does
record_city_marks_dead(w, city, alive, order, outcomes, by) ==
    LET stations == get_stations_by_city(city)
        working_stations == [sid \in {x \in DOMAIN stations : alive[x]} |-> stations[sid]]
        dead == (DOMAIN stations) \ DOMAIN working_stations
        w0 == [w EXCEPT !.hist.up = {}, !.hist.processed = << >>,
                        !.hist.city = city, !.hist.stations = DOMAIN stations,
                        !.hist.unresolved = {}, !.hist.encoded = {}, !.hist.saved = {}]
        w1 == [w0 EXCEPT !.hist.probed = Update(@, stations),
                         !.hist.up = DOMAIN working_stations,
                         !.monitor =
                            [@ EXCEPT
                               !.working_stations = @ \ dead,
                               !.failed_stations =
                                  [x \in (DOMAIN w.monitor.failed_stations) \cup dead |->
                                      IF x \in dead
                                      THEN Get(w.monitor.failed_stations, x, 0) + 1
                                      ELSE w.monitor.failed_stations[x]]]]
    IN IF DOMAIN stations = {} THEN w0
       ELSE IF DOMAIN working_stations = {} THEN w1
       ELSE record_city_loop(w1, order, working_stations, city, outcomes, by)

\* ScheduledRecorder.record_city. alive: the result of each probe of
\* verify_stations_health; order: the order the probes completed in, which is
\* the order of the dict it returns; outcomes: how each record_stream ends.
record_city(w, city, alive, order, outcomes, by) ==
    LET stations == get_stations_by_city(city)
        working_stations == [sid \in {x \in DOMAIN stations : alive[x]} |-> stations[sid]]
        w0 == [w EXCEPT !.hist.up = {}, !.hist.processed = << >>,
                        !.hist.city = city, !.hist.stations = DOMAIN stations,
                        !.hist.unresolved = {}, !.hist.encoded = {}, !.hist.saved = {}]
        w1 == [w0 EXCEPT !.hist.probed = Update(@, stations),
                         !.hist.up = DOMAIN working_stations]
    IN IF DOMAIN stations = {} THEN w0
       ELSE IF DOMAIN working_stations = {} THEN w1
       ELSE record_city_loop(w1, order, working_stations, city, outcomes, by)

\* mutant: a failed retry schedules a further retry, as record_city does
retry_recording_requeues(w, sid, url, city, outcome, by) ==
    IF outcome = "ok"
    THEN LET w1 == recorded(w, sid, city)
         IN log_recording(w1, w.now, RecordSeconds, w1.now, city)
    ELSE IF outcome = "log_error"
    THEN record_city_except(log_recording_raises(recorded(w, sid, city)),
                            sid, url, city, by)
    ELSE record_city_except([w EXCEPT !.consec = [@ EXCEPT ![sid] = @ + 1]],
                            sid, url, city, by)

\* ScheduledRecorder.retry_recording
retry_recording(w, sid, url, city, outcome, by) ==
    IF outcome = "ok"
    THEN LET w1 == recorded(w, sid, city)
         IN log_recording(w1, w.now, RecordSeconds, w1.now, city)
    ELSE IF outcome = "log_error"
    THEN retry_recording_except(log_recording_raises(recorded(w, sid, city)),
                                sid, url, city, by)
    ELSE retry_recording_except([w EXCEPT !.consec = [@ EXCEPT ![sid] = @ + 1]],
                                sid, url, city, by)

---------------------------------------------------------------------------
(* Spec: ScheduledRecorder started with --repeat-every, then run() *)

\* --repeat-every, in minutes
RepeatEveryChoices == {5, 60}

AllOrder == <<"s1", "s2", "s3">>

\* the loop of verify_all_stations
RECURSIVE classify(_, _, _, _)
classify(m, sids, working, t) ==
    IF sids = << >> THEN m
    ELSE classify(IF Head(sids) \in working
                  THEN mark_working(m, Head(sids), t)
                  ELSE mark_failed(m, Head(sids)),
                  Tail(sids), working, t)

\* ScheduledRecorder.verify_all_stations; alive: the result of each probe
verify_all_stations(m, alive, t) ==
    classify(m, AllOrder, {sid \in DOMAIN get_all_stations : alive[sid]}, t)

\* main with --repeat-every: one record_city job per city, in the order of
\* get_cities, then run() adds the hourly status job
RECURSIVE schedule_cities(_, _, _)
schedule_cities(w, cities, minutes) ==
    IF cities = << >> THEN w
    ELSE schedule_cities(
            every_do(w, minutes * 60, "record_city", Head(cities), "none", NoUrl, 0),
            Tail(cities), minutes)

StartWorld(alive, minutes, l) ==
    LET w0 == [monitor |-> verify_all_stations(
                              NewMonitor(DefaultMaxRetries, DefaultRetryDelay), alive, 0),
               jobs |-> << >>, next_job_id |-> 1, now |-> 0, log |-> l,
               consec |-> [sid \in AllStations |-> 0],
               hist |-> [NoHist EXCEPT !.probed = get_all_stations]]
        w1 == schedule_cities(w0, get_cities, minutes)
    IN every_do(w1, StatusEverySeconds, "print_status_report", "none", "none", NoUrl, 0)

Init ==
    /\ \E alive \in ProbeMaps(get_all_stations), minutes \in RepeatEveryChoices,
          l \in {NoLog, [exists |-> TRUE, rows |-> <<Header>>]} :
          LET w == StartWorld(alive, minutes, l)
          IN /\ monitor = w.monitor
             /\ jobs = w.jobs
             /\ next_job_id = w.next_job_id
             /\ now = w.now
             /\ log = w.log
             /\ consec = w.consec
             /\ hist = w.hist
    /\ last_call = NoCall
    /\ loop = [pc |-> "run_pending", runnable |-> << >>, iter |-> 0]
    /\ ran = NoRun
    /\ vs = VsOff
    /\ probe = ProbeOff
    /\ res = ResOff
    /\ sched = SchedOff

\* Job.should_run
should_run(job, t) == t >= job.next_run

\* sorted(job for job in self.jobs if job.should_run): the positions in jobs of
\* the jobs of the set I, by next_run, and by position where next_run is equal
RECURSIVE SortedJobs(_, _)
SortedJobs(js, I) ==
    IF I = {} THEN << >>
    ELSE LET i == CHOOSE x \in I : \A y \in I :
                     \/ js[x].next_run < js[y].next_run
                     \/ (js[x].next_run = js[y].next_run /\ x <= y)
         IN <<i>> \o SortedJobs(js, I \ {i})

\* schedule.run_pending, up to the first job
RunPending ==
    /\ loop.pc = "run_pending"
    /\ LET due == SortedJobs(jobs, {i \in 1..Len(jobs) : should_run(jobs[i], now)})
       IN loop' = [loop EXCEPT !.pc = IF due = << >> THEN "sleep" ELSE "run_job",
                               !.runnable = due]
    /\ UNCHANGED <<monitor, now, last_call, consec, jobs, next_job_id, ran, log, vs, hist, probe, res, sched>>

\* Job.run after the job function returned at w: last_run, _schedule_next_run;
\* then run_pending goes on to the next job
FinishJob(w, i, outcome) ==
    /\ jobs' = [w.jobs EXCEPT ![i].next_run = w.now + jobs[i].interval,
                              ![i].runs = @ + 1,
                              ![i].first_run = IF jobs[i].runs = 0 THEN now ELSE @,
                              ![i].ran_at = now,
                              ![i].fails = IF outcome \in {"none", "ok"} THEN @ ELSE @ + 1]
    /\ monitor' = w.monitor
    /\ next_job_id' = w.next_job_id
    /\ now' = w.now
    /\ log' = w.log
    /\ consec' = w.consec
    /\ ran' = [id |-> jobs[i].id, kind |-> jobs[i].kind, sid |-> jobs[i].sid,
               outcome |-> outcome, seq |-> 1 - ran.seq]
    /\ loop' = [loop EXCEPT !.runnable = Tail(@),
                            !.pc = IF Tail(loop.runnable) = << >> THEN "sleep" ELSE "run_job"]
    /\ hist' = w.hist
    /\ UNCHANGED <<last_call, vs, probe, res, sched>>

\* a record_city job runs
RunRecordCity ==
    /\ loop.pc = "run_job"
    /\ LET i == Head(loop.runnable)
           stations == get_stations_by_city(jobs[i].city)
       IN /\ jobs[i].kind = "record_city"
          /\ \E alive \in ProbeMaps(stations) :
             LET up == {sid \in DOMAIN stations : alive[sid]}
             IN \E order \in Perms(up) :
                \E outcomes \in [up -> {"ok", "encoder_error", "log_error", "not_found"}] :
                   /\ \A sid \in up : outcomes[sid] \in RecordOutcomes(stations[sid])
                   /\ FinishJob(record_city(World, jobs[i].city, alive, order, outcomes,
                                            jobs[i].id),
                                i, "none")

\* a retry_recording job runs
RunRetryRecording ==
    /\ loop.pc = "run_job"
    /\ LET i == Head(loop.runnable)
       IN /\ jobs[i].kind = "retry_recording"
          /\ \E outcome \in RecordOutcomes(jobs[i].url) :
                FinishJob(retry_recording(World, jobs[i].sid, jobs[i].url, jobs[i].city,
                                          outcome, jobs[i].id),
                          i, outcome)

\* the print_status_report job runs
RunPrintStatusReport ==
    /\ loop.pc = "run_job"
    /\ LET i == Head(loop.runnable)
       IN /\ jobs[i].kind = "print_status_report"
          /\ FinishJob(World, i, "none")

\* the next time a job is due
NextDue == CHOOSE t \in {jobs[i].next_run : i \in 1..Len(jobs)} :
              \A i \in 1..Len(jobs) : t <= jobs[i].next_run

\* time.sleep(1): one turn of the loop, or as many turns as find no job due
Sleep ==
    /\ loop.pc = "sleep"
    /\ loop.iter < MaxLoops
    /\ \E d \in {1} \cup {NextDue - now} :
          /\ d >= 1
          /\ now' = now + d
    /\ loop' = [loop EXCEPT !.pc = "run_pending", !.iter = @ + 1]
    /\ UNCHANGED <<monitor, last_call, consec, jobs, next_job_id, ran, log, vs, hist, probe, res, sched>>

Next ==
    \/ RunPending
    \/ RunRecordCity
    \/ RunRetryRecording
    \/ RunPrintStatusReport
    \/ Sleep

Spec == Init /\ [][Next]_vars

---------------------------------------------------------------------------
(* Claims on the retry path, checked under Spec *)

RetryJobs == {i \in 1..Len(jobs) : jobs[i].kind = "retry_recording"}

JobIds(js) == {js[i].id : i \in 1..Len(js)}

\* the step is the run of a job function
IsRun == ran'.seq # ran.seq

\* C7: the retry that record_city enqueues after a failed recording is one-shot:
\* it fires once, not before get_retry_delay seconds after it was enqueued, and
\* is not in the job list once it has fired.
C7_RetryIsOneShot ==
    \A i \in RetryJobs :
       /\ jobs[i].runs >= 1 => jobs[i].first_run >= jobs[i].made_at + jobs[i].interval
       /\ jobs[i].runs <= 1
       /\ jobs[i].runs = 0

\* C8: with max_retries = 3, once a station has failed 3 recordings in a row
\* should_retry is false and no retry of that station invokes the recording again.
C8_NoRetryAfterThirdFailure ==
    /\ [](\A sid \in AllStations :
             consec[sid] >= DefaultMaxRetries => ~should_retry(monitor, sid))
    /\ [][ (IsRun /\ ran'.kind = "retry_recording") =>
              consec[ran'.sid] < DefaultMaxRetries ]_vars

\* C9: a retry whose recording fails calls mark_failed (failure count + 1) and
\* adds no job: the jobs after it are the jobs before it; every retry job was
\* enqueued by a record_city job.
C9_FailedRetryAddsNoJob ==
    /\ [](\A i \in RetryJobs :
             /\ jobs[i].made_by \in 1..Len(jobs)
             /\ jobs[jobs[i].made_by].kind = "record_city")
    /\ [][ (IsRun /\ ran'.kind = "retry_recording" /\ ran'.outcome # "ok") =>
              /\ JobIds(jobs') \subseteq JobIds(jobs)
              /\ Len(jobs') = Len(jobs)
              /\ Status(monitor', ran'.sid) = "Failed"
              /\ ran'.outcome \in {"encoder_error", "not_found"} =>
                    FailureCount(monitor', ran'.sid) = FailureCount(monitor, ran'.sid) + 1
       ]_vars

\* a retry has failed while should_retry still holds for its station, and the
\* station has no retry job but that one
C9_Witness ==
    /\ ran.kind = "retry_recording"
    /\ ran.outcome = "encoder_error"
    /\ FailureCount(monitor, ran.sid) = 2
    /\ should_retry(monitor, ran.sid)
    /\ Cardinality({i \in RetryJobs : jobs[i].sid = ran.sid}) = 1

\* C21 as stated, for one step: retries end. A retry job that runs for a
\* station whose retries are used up (should_retry is false before the run) is
\* not in the job list after the run, so that the retries caused by one failed
\* recording come to an end.
C21_RetriesEnd ==
    [][ (IsRun /\ ran'.kind = "retry_recording" /\ ~should_retry(monitor, ran'.sid)) =>
           ran'.id \notin JobIds(jobs') ]_vars

\* C22 as stated, for the first retries of a job: when the retries of a
\* station keep failing, the time from the first retry to the second is
\* longer than the time from the failed recording to the first retry.
C22_RetryGapsGrow ==
    \A i \in RetryJobs :
       (jobs[i].runs = 2 /\ jobs[i].fails = 2) =>
          jobs[i].ran_at - jobs[i].first_run > jobs[i].first_run - jobs[i].made_at

---------------------------------------------------------------------------
(* SpecVerify: one call verify_stations_health(stations_dict, max_workers).  *)
(* The caller submits one verify_stream_url per entry to a                  *)
(* ThreadPoolExecutor, whose workers take the submitted calls in order, at   *)
(* most max_workers at a time; the caller then takes the futures as they     *)
(* complete and leaves the with block when all are done.                     *)

\* the URLs the entries are drawn from
EntryUrls == {DirectUrl, PlaylistUrl, RtmpUrl}

\* stations_dict: any entries over the station ids
StationDicts ==
    UNION {[ids -> EntryUrls] : ids \in SUBSET {"s1", "s2", "s3"}}

\* the keys of d in the order of the dict
RECURSIVE KeysInOrder(_, _)
KeysInOrder(d, keys) ==
    IF keys = << >> THEN << >>
    ELSE (IF Head(keys) \in DOMAIN d THEN <<Head(keys)>> ELSE << >>)
         \o KeysInOrder(d, Tail(keys))

InitVerify ==
    /\ \E d \in StationDicts, w \in 1..MaxWorkersBound :
          vs = [pc |-> IF DOMAIN d = {} THEN "collect" ELSE "submit",
                stations_dict |-> d,
                max_workers |-> w,
                to_submit |-> KeysInOrder(d, AllOrder),
                queue |-> << >>,
                running |-> {},
                done |-> EmptyDict,
                probes |-> [sid \in DOMAIN d |-> 0],
                collected |-> {},
                working |-> EmptyDict,
                order |-> << >>]
    /\ monitor = NewMonitor(DefaultMaxRetries, DefaultRetryDelay)
    /\ now = 0
    /\ last_call = NoCall
    /\ consec = [s \in Stations |-> 0]
    /\ jobs = << >>
    /\ next_job_id = 0
    /\ loop = LoopOff
    /\ ran = NoRun
    /\ log = NoLog
    /\ hist = NoHist
    /\ probe = ProbeOff
    /\ res = ResOff
    /\ sched = SchedOff

\* executor.submit(verify_stream_url, url) for the next entry
Submit ==
    /\ vs.pc = "submit"
    /\ vs' = [vs EXCEPT !.queue = Append(@, Head(vs.to_submit)),
                        !.to_submit = Tail(@),
                        !.pc = IF Tail(vs.to_submit) = << >> THEN "collect" ELSE "submit"]
    /\ UNCHANGED <<monitor, now, last_call, consec, jobs, next_job_id, loop, ran, log, hist, probe, res, sched>>

\* mutant: every submitted call gets a thread of its own at once
WorkerStart_unbounded ==
    /\ vs.pc \in {"submit", "collect"}
    /\ vs.queue # << >>
    /\ vs' = [vs EXCEPT !.running = @ \cup {Head(vs.queue)},
                        !.probes = [@ EXCEPT ![Head(vs.queue)] = @ + 1],
                        !.queue = Tail(@)]
    /\ UNCHANGED <<monitor, now, last_call, consec, jobs, next_job_id, loop, ran, log, hist, probe, res, sched>>

\* a worker thread of the pool takes the next submitted call and starts
\* verify_stream_url; the pool has max_workers threads
WorkerStart ==
    /\ vs.pc \in {"submit", "collect"}
    /\ vs.queue # << >>
    /\ Cardinality(vs.running) < vs.max_workers
    /\ vs' = [vs EXCEPT !.running = @ \cup {Head(vs.queue)},
                        !.probes = [@ EXCEPT ![Head(vs.queue)] = @ + 1],
                        !.queue = Tail(@)]
    /\ UNCHANGED <<monitor, now, last_call, consec, jobs, next_job_id, loop, ran, log, hist, probe, res, sched>>

\* mutant: the worker thread itself stores its entry in the dict of the caller
WorkerFinish_writes_working(sid) ==
    /\ sid \in vs.running
    /\ \E net \in NetOutcomes :
          LET ok == verify_stream_url(vs.stations_dict[sid], net)
          IN  vs' = [vs EXCEPT !.running = @ \ {sid},
                               !.done = Put(@, sid, ok),
                               !.working = IF ok THEN Put(@, sid, vs.stations_dict[sid])
                                           ELSE @]
    /\ UNCHANGED <<monitor, now, last_call, consec, jobs, next_job_id, loop, ran, log, hist, probe, res, sched>>

\* verify_stream_url returns in a worker thread: the future is done
WorkerFinish(sid) ==
    /\ sid \in vs.running
    /\ \E net \in NetOutcomes :
          vs' = [vs EXCEPT !.running = @ \ {sid},
                           !.done = Put(@, sid,
                                        verify_stream_url(vs.stations_dict[sid], net))]
    /\ UNCHANGED <<monitor, now, last_call, consec, jobs, next_job_id, loop, ran, log, hist, probe, res, sched>>

\* mutant: the URL of another entry is stored under sid
collect_other_url(working, stations_dict, sid, ok) ==
    IF ok
    THEN Put(working, sid,
             stations_dict[CHOOSE k \in DOMAIN stations_dict :
                              \A k2 \in DOMAIN stations_dict :
                                 stations_dict[k2] # stations_dict[sid] =>
                                    stations_dict[k] # stations_dict[sid]])
    ELSE working

\* mutant: the entry is stored whatever its probe returned
collect_ignores_ok(working, stations_dict, sid, ok) ==
    Put(working, sid, stations_dict[sid])

\* the body of the as_completed loop: if ok: working[sid] = stations_dict[sid]
collect(working, stations_dict, sid, ok) ==
    IF ok THEN Put(working, sid, stations_dict[sid]) ELSE working

\* one turn of the as_completed loop, for a future that is done
Collect(sid) ==
    /\ vs.pc = "collect"
    /\ sid \in (DOMAIN vs.done) \ vs.collected
    /\ vs' = [vs EXCEPT !.collected = @ \cup {sid},
                        !.working = collect(@, vs.stations_dict, sid, vs.done[sid]),
                        !.order = IF vs.done[sid] THEN Append(@, sid) ELSE @]
    /\ UNCHANGED <<monitor, now, last_call, consec, jobs, next_job_id, loop, ran, log, hist, probe, res, sched>>

\* every future was taken: the with block ends and working is returned
Return ==
    /\ vs.pc = "collect"
    /\ vs.collected = DOMAIN vs.stations_dict
    /\ vs' = [vs EXCEPT !.pc = "returned"]
    /\ UNCHANGED <<monitor, now, last_call, consec, jobs, next_job_id, loop, ran, log, hist, probe, res, sched>>

NextVerify ==
    \/ Submit
    \/ WorkerStart
    \/ \E sid \in DOMAIN vs.stations_dict : WorkerFinish(sid)
    \/ \E sid \in DOMAIN vs.stations_dict : Collect(sid)
    \/ Return

SpecVerify == InitVerify /\ [][NextVerify]_vars

---------------------------------------------------------------------------
(* Claims on verify_stations_health, checked under SpecVerify *)

\* C10: the dict verify_stations_health returns has only keys of stations_dict,
\* each with exactly the URL stations_dict gives it; this holds of the dict
\* all the while it is built.
C10_ResultIsSubsetOfEntries ==
    /\ (DOMAIN vs.working) \subseteq (DOMAIN vs.stations_dict)
    /\ \A sid \in DOMAIN vs.working : vs.working[sid] = vs.stations_dict[sid]

\* a call over three entries has returned two of them, of different URLs
C10_Witness ==
    /\ vs.pc = "returned"
    /\ Cardinality(DOMAIN vs.stations_dict) = 3
    /\ Cardinality(DOMAIN vs.working) = 2
    /\ \E a, b \in DOMAIN vs.working : vs.working[a] # vs.working[b]

\* C11: verify_stations_health calls verify_stream_url at most once per entry
\* at any time; when it returns, every entry was probed exactly once and its
\* probe has completed, nothing is queued or running, and the dict returned
\* has exactly the entries whose probe returned True, whatever the order the
\* probes started, ended and were collected in.
C11_EachEntryProbedOnce ==
    /\ \A sid \in DOMAIN vs.stations_dict : vs.probes[sid] <= 1
    /\ vs.pc = "returned" =>
          /\ \A sid \in DOMAIN vs.stations_dict :
                vs.probes[sid] = 1 /\ sid \in DOMAIN vs.done
          /\ vs.running = {} /\ vs.queue = << >> /\ vs.to_submit = << >>
          /\ DOMAIN vs.working = {sid \in DOMAIN vs.stations_dict : vs.done[sid]}

\* a call over three entries on fewer threads has returned: one probe returned
\* False, and the two others were collected against the order of submission
C11_Witness ==
    /\ vs.pc = "returned"
    /\ Cardinality(DOMAIN vs.stations_dict) = 3
    /\ vs.max_workers < 3
    /\ \E sid \in DOMAIN vs.stations_dict : ~vs.done[sid]
    /\ Len(vs.order) = 2
    /\ vs.order # KeysInOrder(vs.working, AllOrder)

\* C12: at every instant of verify_stations_health(stations_dict, max_workers)
\* the number of verify_stream_url calls in flight is at most max_workers,
\* however many entries there are.
C12_InFlightAtMostMaxWorkers ==
    Cardinality(vs.running) <= vs.max_workers

\* the pool is full while a submitted entry waits for a thread
C12_Witness ==
    /\ Cardinality(vs.running) = vs.max_workers
    /\ vs.queue # << >>
    /\ Cardinality(DOMAIN vs.stations_dict) > vs.max_workers

\* a step of a worker thread of the pool: a call starts or returns
IsWorkerStep == vs'.running # vs.running

\* C25: the worker threads of verify_stations_health only compute a boolean
\* per probe: a step of a worker leaves the StationMonitor, the job queue and
\* the result dict of the caller as they are and, when a probe returns, adds
\* nothing but the boolean of that one entry to the futures; the result dict
\* is written by the calling thread alone, one key at a time, and no key it
\* holds is lost or changed by a later write.
C25_WorkersOnlyReturnBoolean ==
    [][ /\ IsWorkerStep =>
              /\ monitor' = monitor
              /\ jobs' = jobs /\ next_job_id' = next_job_id
              /\ vs'.working = vs.working
              /\ vs'.collected = vs.collected /\ vs'.order = vs.order
              /\ \A sid \in DOMAIN vs.done :
                    sid \in DOMAIN vs'.done /\ vs'.done[sid] = vs.done[sid]
              /\ \A sid \in (DOMAIN vs'.done) \ (DOMAIN vs.done) :
                    /\ vs.running \ vs'.running = {sid}
                    /\ vs'.done[sid] \in BOOLEAN
        /\ vs'.working # vs.working =>
              /\ ~IsWorkerStep
              /\ Cardinality((DOMAIN vs'.working) \ (DOMAIN vs.working)) = 1
              /\ \A sid \in DOMAIN vs.working :
                    sid \in DOMAIN vs'.working /\ vs'.working[sid] = vs.working[sid]
      ]_vars

\* two probes have returned True in worker threads and a third is running,
\* and the result dict of the caller is still empty
C25_Witness ==
    /\ vs.pc = "collect"
    /\ Cardinality({sid \in DOMAIN vs.done : vs.done[sid]}) = 2
    /\ vs.running # {}
    /\ vs.working = EmptyDict
    /\ vs.collected = {}

---------------------------------------------------------------------------
(* SpecProbe: one call of verify_stream_url on any URL and network outcome *)

\* the URLs verify_stream_url is called on: every scheme, path suffix and
\* query of the catalog's kinds, and one URL that does not parse
ProbeUrls ==
    {MakeUrl(sc, "radio", ext, q) :
        sc \in {"http", "https", "rtmp", "mms", ""},
        ext \in {".mp3", ".m3u8", ".m3u", ".pls", ".html"},
        q \in BOOLEAN}
    \cup {BadUrl}

\* the variables no call of one function touches
Idle ==
    /\ monitor = NewMonitor(DefaultMaxRetries, DefaultRetryDelay)
    /\ now = 0
    /\ last_call = NoCall
    /\ consec = [s \in Stations |-> 0]
    /\ jobs = << >>
    /\ next_job_id = 0
    /\ loop = LoopOff
    /\ ran = NoRun
    /\ log = NoLog
    /\ hist = NoHist

InitProbe ==
    /\ \E url \in ProbeUrls, net \in NetOutcomes :
          probe = [pc |-> "call", url |-> url, net |-> net,
                   out |-> ProbeEnd("none", "none", 0, 0, 0)]
    /\ Idle
    /\ vs = VsOff
    /\ res = ResOff
    /\ sched = SchedOff

\* verify_stream_url(url) runs and returns, or ends with an exception
VerifyStreamUrl ==
    /\ probe.pc = "call"
    /\ probe' = [probe EXCEPT !.pc = "returned",
                              !.out = verify_stream_url_call(probe.url, probe.net)]
    /\ UNCHANGED <<monitor, now, last_call, consec, jobs, next_job_id, loop, ran, log, vs, hist, res, sched>>

NextProbe == VerifyStreamUrl

SpecProbe == InitProbe /\ [][NextProbe]_vars

\* C13: verify_stream_url is total: for every URL and every network outcome
\* the call ends by returning True or False, never with an exception, and
\* whenever an exception was raised inside it (by urlparse, by the request or
\* by reading the body) it returns False.
C13_VerifyIsTotal ==
    probe.pc = "returned" =>
       /\ probe.out.ret \in {"True", "False"}
       /\ probe.out.exc # "none" => probe.out.ret = "False"
       /\ (probe.net.error # "none" /\ probe.out.head + probe.out.get > 0)
             => probe.out.ret = "False"

\* a GET to an http URL raised ConnectionError and the call returned False
C13_Witness ==
    /\ probe.pc = "returned"
    /\ probe.url.scheme = "http"
    /\ probe.out.get = 1
    /\ probe.out.exc = "ConnectionError"
    /\ probe.out.ret = "False"

\* C14: the decision table of verify_stream_url, for every URL that parses:
\* a scheme other than http/https gives True with no request made; an
\* http(s) URL that ends in .m3u8, .m3u or .pls gives one HEAD request and no
\* GET, and True iff the response came with status 200; any other http(s)
\* URL gives one streaming GET and no HEAD, at most one chunk read, and True
\* iff the response came with status 200 and the first chunk read is non-empty.
C14_DecisionTable ==
    (probe.pc = "returned" /\ probe.url # BadUrl) =>
       LET u == probe.url
           n == probe.net
           o == probe.out
       IN IF u.scheme \notin {"http", "https"}
          THEN o.ret = "True" /\ o.head = 0 /\ o.get = 0 /\ o.chunks_read = 0
          ELSE IF u.ext \in {".m3u8", ".m3u", ".pls"} /\ ~u.query
          THEN /\ o.head = 1 /\ o.get = 0 /\ o.chunks_read = 0
               /\ o.ret = "True" <=> (n.error = "none" /\ n.status = 200)
          ELSE /\ o.head = 0 /\ o.get = 1 /\ o.chunks_read <= 1
               /\ o.ret = "True" <=>
                     /\ n.error = "none" /\ n.status = 200 /\ ~n.read_error
                     /\ n.chunks # << >>
                     /\ n.chunks[1] # ""

\* a GET came back 200 with an empty first chunk before a non-empty one: one
\* chunk was read and the call returned False
C14_Witness ==
    /\ probe.pc = "returned"
    /\ probe.url.scheme = "https"
    /\ probe.out.get = 1
    /\ probe.net.status = 200
    /\ Len(probe.net.chunks) = 2
    /\ probe.out.chunks_read = 1
    /\ probe.out.ret = "False"

---------------------------------------------------------------------------
(* SpecSlots: one call of ScheduledRecorder.schedule_all_cities *)

\* the cities of the catalog, in the order of get_cities
CityNames == <<"c1", "c2", "c3", "c4">>

\* --start-hour and the length of the window [start_hour, end_hour) in hours
StartHours == {0, 22, 23}
LastHour == 24

\* --interval, in minutes
IntervalChoices == {20, 30, 60, 90}

\* f"{n:02d}", for n < 100: the two digits of n
TwoDigits(n) == <<n \div 10, n % 10>>

\* f"{hour:02d}:{minute:02d}" of the minute of the day: the digits of the hour
\* and of the minute
time_str(minutes) == TwoDigits(minutes \div 60) \o TwoDigits(minutes % 60)

\* mutant: the interval is kept when there are fewer slots than cities
fit_slots_keeps_interval(total_minutes, interval_minutes, n) ==
    [interval_minutes |-> interval_minutes, slots |-> total_minutes \div interval_minutes]

\* slots = total_minutes // interval_minutes; if slots < len(cities): the
\* interval is reduced to total_minutes // len(cities) and slots = len(cities)
fit_slots(total_minutes, interval_minutes, n) ==
    LET slots == total_minutes \div interval_minutes
    IN IF slots < n
       THEN [interval_minutes |-> total_minutes \div n, slots |-> n]
       ELSE [interval_minutes |-> interval_minutes, slots |-> slots]

\* the list times before the shuffle
slot_times(start_hour, interval_minutes, slots) ==
    [i \in 1..slots |-> time_str(start_hour * 60 + (i - 1) * interval_minutes)]

\* random.shuffle(times), as far as zip(cities, times) sees it: which of the
\* slots come first, for as many as there are cities
Shuffles(slots, n) ==
    LET k == IF n < slots THEN n ELSE slots
    IN {q \in [1..k -> 1..slots] : \A a, b \in 1..k : a # b => q[a] # q[b]}

InitSlots ==
    /\ \E start_hour \in StartHours, hours \in 0..MaxWindowHours,
          interval_minutes \in IntervalChoices, n \in 0..MaxCities :
          /\ start_hour + hours <= LastHour
          /\ sched = [pc |-> "call",
                      start_hour |-> start_hour,
                      end_hour |-> start_hour + hours,
                      interval_minutes |-> interval_minutes,
                      cities |-> SubSeq(CityNames, 1, n),
                      interval_used |-> 0,
                      slots |-> 0,
                      day_jobs |-> << >>,
                      recording_times |-> EmptyDict]
    /\ Idle
    /\ vs = VsOff
    /\ probe = ProbeOff
    /\ res = ResOff

\* schedule_all_cities(start_hour, end_hour, interval_minutes), the shuffle
\* putting the slots q[1], q[2], ... first
ScheduleAllCities ==
    /\ sched.pc = "call"
    /\ LET n == Len(sched.cities)
           total_minutes == (sched.end_hour - sched.start_hour) * 60
           fit == fit_slots(total_minutes, sched.interval_minutes, n)
           times == slot_times(sched.start_hour, fit.interval_minutes, fit.slots)
       IN IF n = 0
          THEN sched' = [sched EXCEPT !.pc = "done"]
          ELSE \E q \in Shuffles(fit.slots, n) :
                  sched' = [sched EXCEPT
                     !.pc = "done",
                     !.interval_used = fit.interval_minutes,
                     !.slots = fit.slots,
                     !.day_jobs = [k \in DOMAIN q |->
                                     [city |-> sched.cities[k], at |-> times[q[k]]]],
                     !.recording_times =
                        [c \in {sched.cities[k] : k \in DOMAIN q} |->
                           times[q[CHOOSE k \in DOMAIN q : sched.cities[k] = c]]]]
    /\ UNCHANGED <<monitor, now, last_call, consec, jobs, next_job_id, loop, ran, log, vs, hist, probe, res>>

NextSlots == ScheduleAllCities

SpecSlots == InitSlots /\ [][NextSlots]_vars

\* C15 as stated: whenever total_minutes // interval_minutes is smaller than
\* the number of cities, after schedule_all_cities every city has exactly one
\* daily job and one recording time, and no two cities have the same time.
C15_EveryCityOwnSlot ==
    LET n == Len(sched.cities)
        total_minutes == (sched.end_hour - sched.start_hour) * 60
    IN (sched.pc = "done" /\ n > 0 /\ total_minutes \div sched.interval_minutes < n) =>
          /\ DOMAIN sched.recording_times = {sched.cities[k] : k \in 1..n}
          /\ \A k \in 1..n :
                Cardinality({j \in DOMAIN sched.day_jobs :
                                sched.day_jobs[j].city = sched.cities[k]}) = 1
          /\ \A a, b \in DOMAIN sched.recording_times :
                a # b => sched.recording_times[a] # sched.recording_times[b]

\* C15, amended: the same, for windows with at least as many minutes as there
\* are cities (the reduced interval is then at least one minute).
C15_EveryCityOwnSlotIfMinutesSuffice ==
    LET n == Len(sched.cities)
        total_minutes == (sched.end_hour - sched.start_hour) * 60
    IN (/\ sched.pc = "done" /\ n > 0
        /\ total_minutes \div sched.interval_minutes < n
        /\ total_minutes >= n) =>
          /\ DOMAIN sched.recording_times = {sched.cities[k] : k \in 1..n}
          /\ \A k \in 1..n :
                Cardinality({j \in DOMAIN sched.day_jobs :
                                sched.day_jobs[j].city = sched.cities[k]}) = 1
          /\ \A a, b \in DOMAIN sched.recording_times :
                a # b => sched.recording_times[a] # sched.recording_times[b]

\* three cities in a one-hour window with 30-minute slots: the interval was
\* reduced to 20 minutes and the shuffle gave the first city a later slot
\* than the second
C15_Witness ==
    /\ sched.pc = "done"
    /\ Len(sched.cities) = 3
    /\ sched.end_hour - sched.start_hour = 1
    /\ sched.interval_minutes = 30
    /\ sched.interval_used = 20
    /\ sched.recording_times["c1"] = time_str(sched.start_hour * 60 + 40)
    /\ sched.recording_times["c2"] = time_str(sched.start_hour * 60)

---------------------------------------------------------------------------
(* SpecResolve: one call of record_stream, from the catalog URL to the encoder *)

\* A link as it stands in a page: a URL (scheme "" for a relative one) and
\* the keyword its text contains after the scheme, if any.
MakeLink(scheme, host, ext, query, kw) ==
    [scheme |-> scheme, host |-> host, ext |-> ext, query |-> query, kw |-> kw]

\* the empty string
NoLink == MakeLink("", "", "", FALSE, "")

\* the URL a link is, for urlparse and requests
UrlOf(link) == MakeUrl(link.scheme, link.host, link.ext, link.query)

\* An element of a page, as far as extract_direct_stream_url looks at it:
\*   audio   has_source: it has a <source> child; has_attr: that child has a
\*           src attribute; attr: its value (NoLink: src="")
\*   iframe  has_attr: it has a src attribute; attr: its value
\*   a       attr: the value of href
\*   script  has_attr: it has a src attribute (and no text); words: the links
\*           in its text (script.string)
\*   text    words: links anywhere else in the page source
Element(tag, has_source, has_attr, attr, words) ==
    [tag |-> tag, has_source |-> has_source, has_attr |-> has_attr,
     attr |-> attr, words |-> words]

Elements ==
    { Element("audio", FALSE, FALSE, NoLink, << >>),
      Element("audio", TRUE,  FALSE, NoLink, << >>),
      Element("audio", TRUE,  TRUE,  NoLink, << >>),
      Element("audio", TRUE,  TRUE,  MakeLink("http", "cdn-mp3", ".mp3", FALSE, ""), << >>),
      Element("audio", TRUE,  TRUE,  MakeLink("http", "cdn-m3u", ".m3u", FALSE, ""), << >>),
      Element("iframe", FALSE, FALSE, NoLink, << >>),
      Element("iframe", FALSE, TRUE, MakeLink("http", "cdn-token", ".mp3", TRUE, ""), << >>),
      Element("iframe", FALSE, TRUE, MakeLink("https", "cdn-stream", "", FALSE, "stream"), << >>),
      Element("a", FALSE, TRUE, MakeLink("http", "cdn-pls", ".pls", FALSE, ""), << >>),
      Element("a", FALSE, TRUE, MakeLink("", "", "", FALSE, "listen"), << >>),
      Element("a", FALSE, TRUE, MakeLink("http", "cdn-radio", "", FALSE, "radio"), << >>),
      Element("script", FALSE, TRUE, MakeLink("http", "site", ".js", FALSE, ""), << >>),
      Element("script", FALSE, FALSE, NoLink,
              <<MakeLink("http", "site", ".js", FALSE, "")>>),
      Element("script", FALSE, FALSE, NoLink,
              <<MakeLink("http", "cdn-radio", "", FALSE, "radio")>>),
      Element("script", FALSE, FALSE, NoLink,
              <<MakeLink("https", "cdn-stream", "", FALSE, "stream"),
                MakeLink("http", "cdn-token", ".mp3", TRUE, "")>>),
      Element("text", FALSE, FALSE, NoLink,
              <<MakeLink("http", "cdn-radio", "", FALSE, "radio")>>),
      Element("text", FALSE, FALSE, NoLink,
              <<MakeLink("http", "cdn-mp3", ".mp3", FALSE, "")>>) }

\* the pages: up to MaxElements elements in document order
RECURSIVE SeqsUpTo(_, _)
SeqsUpTo(S, n) ==
    IF n = 0 THEN {<< >>}
    ELSE LET shorter == SeqsUpTo(S, n - 1)
         IN shorter \cup {Append(q, x) : q \in {r \in shorter : Len(r) = n - 1}, x \in S}

Pages == SeqsUpTo(Elements, MaxElements)

\* what requests.get(play_page_url) gives
PageResponses ==
    {[error |-> "none", status |-> 200, page |-> pg] : pg \in Pages}
    \cup {[error |-> "none", status |-> 404, page |-> << >>],
          [error |-> "Timeout", status |-> 0, page |-> << >>]}

\* the extensions extract_direct_stream_url looks for
HtmlExts == {".mp3", ".m3u8", ".aac", ".pls"}

\* s.startswith('http')
StartsWithHttp(link) == link.scheme \in {"http", "https"}

\* what extract_direct_stream_url returns: None, or a string found by one
\* of its five searches
None == [some |-> FALSE, link |-> NoLink, by |-> "none"]
Found(link, by) == [some |-> TRUE, link |-> link, by |-> by]

\* the least element of a non-empty set of positions
First(I) == CHOOSE i \in I : \A j \in I : i <= j

\* (a) soup.find('audio'), then audio.find('source') with a src attribute
audio_source(page) ==
    LET I == {i \in DOMAIN page : page[i].tag = "audio"}
    IN IF I = {} THEN None
       ELSE IF page[First(I)].has_source /\ page[First(I)].has_attr
       THEN Found(page[First(I)].attr, "a")
       ELSE None

\* (b) the first iframe whose src starts with http and contains an extension
iframe_src(page) ==
    LET I == {i \in DOMAIN page :
                 /\ page[i].tag = "iframe" /\ page[i].has_attr
                 /\ StartsWithHttp(page[i].attr)
                 /\ page[i].attr.ext \in HtmlExts}
    IN IF I = {} THEN None ELSE Found(page[First(I)].attr, "b")

\* (c) the first anchor whose href ends in an extension or contains 'stream'
\* or 'listen'; a relative href is put after https://worldradiomap.com
anchor_href(page) ==
    LET I == {i \in DOMAIN page :
                 /\ page[i].tag = "a" /\ page[i].has_attr
                 /\ \/ (page[i].attr.ext \in HtmlExts /\ ~page[i].attr.query)
                    \/ page[i].attr.kw \in {"stream", "listen"}}
    IN IF I = {} THEN None
       ELSE LET href == page[First(I)].attr
            IN IF StartsWithHttp(href) THEN Found(href, "c")
               ELSE Found([href EXCEPT !.scheme = "https", !.host = "worldradiomap.com"],
                          "c")

\* whether a pattern of the scans matches in a link: "ext" is
\* https?://[^\s'"]+\.(mp3|m3u8|aac|pls), a keyword k is https?://[^\s'"]+k[^\s'"]*
PatternMatches(pattern, link) ==
    /\ StartsWithHttp(link)
    /\ IF pattern = "ext" THEN link.ext \in HtmlExts ELSE link.kw = pattern

\* match.group(1) of re.search(pattern, text): the leftmost link the pattern
\* matches in; "ext" stops after the extension and so drops a query string
re_search(pattern, words) ==
    LET I == {i \in DOMAIN words : PatternMatches(pattern, words[i])}
    IN IF I = {} THEN NoLink
       ELSE IF pattern = "ext" THEN [words[First(I)] EXCEPT !.query = FALSE]
       ELSE words[First(I)]

\* mutant: the keyword patterns stand before the extension pattern
ScriptPatterns_keywords_first == <<"stream", "listen", "radio", "live", "ext">>

\* mutant: the scan of the page source tries 'stream' before the extensions
ContentPatterns_stream_first == <<"stream", "ext", "listen">>

\* the patterns of the scan of the scripts and of the scan of the page source
ScriptPatterns == <<"ext", "stream", "listen", "radio", "live">>
ContentPatterns == <<"ext", "stream", "listen">>

\* for pattern in patterns: the first pattern with a match decides
RECURSIVE scan(_, _)
scan(patterns, words) ==
    IF patterns = << >> THEN NoLink
    ELSE IF re_search(Head(patterns), words) # NoLink
    THEN re_search(Head(patterns), words)
    ELSE scan(Tail(patterns), words)

\* (d) the first script with a text in which a pattern matches
script_scan(page) ==
    LET I == {i \in DOMAIN page :
                 /\ page[i].tag = "script" /\ page[i].words # << >>
                 /\ scan(ScriptPatterns, page[i].words) # NoLink}
    IN IF I = {} THEN None
       ELSE Found(scan(ScriptPatterns, page[First(I)].words), "d")

\* response.text: every link of the page source, in document order
RECURSIVE page_text(_)
page_text(page) ==
    IF page = << >> THEN << >>
    ELSE (IF Head(page).has_attr /\ Head(page).attr # NoLink
          THEN <<Head(page).attr>> ELSE << >>)
         \o Head(page).words \o page_text(Tail(page))

\* (e) the scan of the page source
content_scan(page) ==
    IF scan(ContentPatterns, page_text(page)) = NoLink THEN None
    ELSE Found(scan(ContentPatterns, page_text(page)), "e")

\* extract_direct_stream_url, given what requests.get(play_page_url) gives
extract_direct_stream_url(response) ==
    IF response.error # "none" THEN None
    ELSE IF response.status # 200 THEN None
    ELSE IF audio_source(response.page).some THEN audio_source(response.page)
    ELSE IF iframe_src(response.page).some THEN iframe_src(response.page)
    ELSE IF anchor_href(response.page).some THEN anchor_href(response.page)
    ELSE IF script_scan(response.page).some THEN script_scan(response.page)
    ELSE content_scan(response.page)

\* if actual_url: a string is true unless it is empty
Truthy(r) == r.some /\ r.link # NoLink

\* A line of a playlist, stripped: key is what stands before '=' in lower
\* case ("" when the line has no key), val says how the value (or the line,
\* without a key) begins, target is the URL it holds.
PlaylistLine(key, val, target) == [key |-> key, val |-> val, target |-> target]

PlaylistLines ==
    { PlaylistLine("",      "other",    NoUrl),
      PlaylistLine("file1", "http",     MakeUrl("http", "stream-1", ".mp3", FALSE)),
      PlaylistLine("file1", "HTTP",     MakeUrl("HTTP", "STREAM-1", ".MP3", FALSE)),
      PlaylistLine("file1", "relative", MakeUrl("",     "",         ".mp3", FALSE)),
      PlaylistLine("file2", "http",     MakeUrl("http", "stream-2", ".mp3", FALSE)),
      PlaylistLine("",      "http",     MakeUrl("http", "stream-3", ".mp3", FALSE)),
      PlaylistLine("",      "HTTP",     MakeUrl("HTTP", "STREAM-3", ".MP3", FALSE)),
      PlaylistLine("file1", "http",     MakeUrl("http", "nested-1", ".pls", FALSE)),
      PlaylistLine("file1", "http",     MakeUrl("http", "nested-2", ".html", FALSE)),
      PlaylistLine("",      "http",     MakeUrl("http", "nested-3", ".m3u", FALSE)),
      PlaylistLine("",      "http",     MakeUrl("http", "nested-4", ".html", FALSE)) }

\* what requests.get(url) and resp.raise_for_status() give for a playlist
PlaylistResponses ==
    {[error |-> "none", lines |-> ls] : ls \in SeqsUpTo(PlaylistLines, MaxLines)}
    \cup {[error |-> "Timeout", lines |-> << >>],
          [error |-> "HTTPError", lines |-> << >>]}

\* the loop over the lines of a .pls: line.lower().startswith('file1=') and
\* candidate.lower().startswith('http')
parse_pls(url, lines) ==
    LET I == {i \in DOMAIN lines :
                 lines[i].key = "file1" /\ lines[i].val \in {"http", "HTTP"}}
    IN IF I = {} THEN url ELSE lines[First(I)].target

\* the loop over the lines of a .m3u: line.startswith('http')
parse_m3u(url, lines) ==
    LET I == {i \in DOMAIN lines : lines[i].key = "" /\ lines[i].val = "http"}
    IN IF I = {} THEN url ELSE lines[First(I)].target

\* how the playlist block of record_stream ends: the URL it leaves, the
\* exception that leaves it (exc), and the requests made
PlaylistEnd(url, exc, fetches) == [url |-> url, exc |-> exc, fetches |-> fetches]

\* the try block of the playlist block of record_stream
playlist_try(url, resp) ==
    IF url.ext \in {".pls", ".m3u"}
    THEN IF url.scheme \notin {"http", "https"}
         THEN PlaylistEnd(url, "MissingSchema", 0)
         ELSE IF resp.error # "none" THEN PlaylistEnd(url, resp.error, 1)
         ELSE IF url.ext = ".pls"
         THEN PlaylistEnd(parse_pls(url, resp.lines), "none", 1)
         ELSE PlaylistEnd(parse_m3u(url, resp.lines), "none", 1)
    ELSE PlaylistEnd(url, "none", 0)

\* mutant: the playlist block without its try ... except
resolve_playlist_unguarded(url, resp) == playlist_try(url, resp)

\* the playlist block of record_stream: except Exception leaves url unchanged
resolve_playlist(url, resp) ==
    LET r == playlist_try(url, resp)
    IN IF r.exc # "none" THEN PlaylistEnd(url, "none", r.fetches) ELSE r

\* the URLs record_stream is called with
ResolveUrls ==
    {MakeUrl("http", "radio", ext, q) :
        ext \in {".mp3", ".html", ".htm", ".pls", ".m3u", ".m3u8"}, q \in BOOLEAN}

NoPage == [error |-> "none", status |-> 0, page |-> << >>]
NoPlaylist == [error |-> "none", lines |-> << >>]

InitResolve ==
    /\ \E url \in ResolveUrls :
          res = [pc |-> "html", catalog_url |-> url, url |-> url,
                 page_fetches |-> 0, response |-> NoPage, extracted |-> None,
                 playlist_fetches |-> 0, playlist |-> NoPlaylist,
                 ffmpeg_url |-> NoUrl, exc |-> "none"]
    /\ Idle
    /\ vs = VsOff
    /\ probe = ProbeOff
    /\ sched = SchedOff

\* record_stream up to the playlist block: an HTML page is fetched and
\* searched; RuntimeError when nothing was extracted
HtmlStage ==
    /\ res.pc = "html"
    /\ IF IsHtml(res.url)
       THEN \E response \in PageResponses :
               LET actual_url == extract_direct_stream_url(response)
               IN res' = [res EXCEPT
                     !.page_fetches = @ + 1,
                     !.response = response,
                     !.extracted = actual_url,
                     !.url = IF Truthy(actual_url) THEN UrlOf(actual_url.link) ELSE @,
                     !.pc = IF Truthy(actual_url) THEN "playlist" ELSE "raised",
                     !.exc = IF Truthy(actual_url) THEN "none" ELSE "RuntimeError"]
       ELSE res' = [res EXCEPT !.pc = "playlist"]
    /\ UNCHANGED <<monitor, now, last_call, consec, jobs, next_job_id, loop, ran, log, vs, hist, probe, sched>>

\* mutant: the URL a playlist gives is resolved again when it is itself a
\* playlist or an HTML page
PlaylistStage_follows_nested ==
    /\ res.pc = "playlist"
    /\ \E resp \in PlaylistResponses :
          LET r == resolve_playlist(res.url, resp)
              again == r.url # res.url /\ res.playlist_fetches = 0
          IN /\ r.fetches = 0 => resp = NoPlaylist
             /\ res' = [res EXCEPT
                   !.playlist_fetches = @ + r.fetches,
                   !.playlist = resp,
                   !.url = r.url,
                   !.pc = IF r.exc # "none" THEN "raised"
                          ELSE IF again /\ IsHtml(r.url) THEN "html"
                          ELSE IF again /\ r.url.ext \in {".pls", ".m3u"} THEN "playlist"
                          ELSE "encode",
                   !.exc = r.exc]
    /\ UNCHANGED <<monitor, now, last_call, consec, jobs, next_job_id, loop, ran, log, vs, hist, probe, sched>>

\* the playlist block of record_stream
PlaylistStage ==
    /\ res.pc = "playlist"
    /\ \E resp \in PlaylistResponses :
          LET r == resolve_playlist(res.url, resp)
          IN /\ r.fetches = 0 => resp = NoPlaylist
             /\ res' = [res EXCEPT
                   !.playlist_fetches = @ + r.fetches,
                   !.playlist = resp,
                   !.url = r.url,
                   !.pc = IF r.exc = "none" THEN "encode" ELSE "raised",
                   !.exc = r.exc]
    /\ UNCHANGED <<monitor, now, last_call, consec, jobs, next_job_id, loop, ran, log, vs, hist, probe, sched>>

\* subprocess.run(ffmpeg ... -i url ...): a file, or CalledProcessError re-raised
Encode ==
    /\ res.pc = "encode"
    /\ \E exc \in {"none", "CalledProcessError"} :
          res' = [res EXCEPT !.ffmpeg_url = res.url,
                             !.pc = IF exc = "none" THEN "done" ELSE "raised",
                             !.exc = exc]
    /\ UNCHANGED <<monitor, now, last_call, consec, jobs, next_job_id, loop, ran, log, vs, hist, probe, sched>>

NextResolve ==
    \/ HtmlStage
    \/ PlaylistStage
    \/ Encode

SpecResolve == InitResolve /\ [][NextResolve]_vars

\* C16 as stated: for a page fetched with status 200, the searches (a) audio
\* source src, (b) iframe src, (c) anchor href, (d) scan of the scripts,
\* (e) scan of the page source are tried in this order and the result is that
\* of the first one that matches, i.e. that finds a URL (a non-empty string);
\* record_stream raises RuntimeError (no stream URL found) if and only if
\* none of the five matches.
C16_FirstMatchWins ==
    (res.page_fetches = 1 /\ res.response.error = "none" /\ res.response.status = 200) =>
       LET pg == res.response.page
           tried == <<audio_source(pg), iframe_src(pg), anchor_href(pg),
                      script_scan(pg), content_scan(pg)>>
           M == {k \in 1..5 : Truthy(tried[k])}
           not_found == res.pc = "raised" /\ res.exc = "RuntimeError"
       IN /\ not_found <=> M = {}
          /\ M # {} => res.extracted = tried[First(M)]

\* the step (d) of extract_direct_stream_url was reached on a fetched page:
\* (a), (b) and (c) found nothing
ScriptScanReached ==
    /\ res.page_fetches = 1 /\ res.response.error = "none" /\ res.response.status = 200
    /\ ~audio_source(res.response.page).some
    /\ ~iframe_src(res.response.page).some
    /\ ~anchor_href(res.response.page).some

\* the scripts of the page that have a text, by position
ScriptsOf(pg) == {i \in DOMAIN pg : pg[i].tag = "script" /\ pg[i].words # << >>}

\* the link is what the extension pattern matches of a word of script i
IsExtMatchIn(link, pg, i) ==
    \E j \in DOMAIN pg[i].words :
       /\ PatternMatches("ext", pg[i].words[j])
       /\ link = [pg[i].words[j] EXCEPT !.query = FALSE]

\* C23 as stated: when (a)-(c) find nothing and some script of the page holds
\* a URL the extension pattern matches, extract_direct_stream_url returns a
\* match of the extension pattern, whatever keyword-only URLs other scripts or
\* earlier positions hold.
C23_ExtensionBeforeKeywords ==
    LET pg == res.response.page
    IN (/\ ScriptScanReached
        /\ \E i \in ScriptsOf(pg) : \E j \in DOMAIN pg[i].words :
              PatternMatches("ext", pg[i].words[j])) =>
          /\ res.extracted.by = "d"
          /\ \E i \in ScriptsOf(pg) : IsExtMatchIn(res.extracted.link, pg, i)

\* C23, amended: when (a)-(c) find nothing and the first script in which any
\* pattern matches holds a URL the extension pattern matches, the result is
\* the leftmost extension match of that script, whatever keyword URLs stand
\* before it in that script.
C23_ExtensionBeforeKeywordsInFirstScript ==
    LET pg == res.response.page
        hits == {i \in ScriptsOf(pg) :
                    \E j \in DOMAIN pg[i].words :
                       \E pattern \in {"ext", "stream", "listen", "radio", "live"} :
                          PatternMatches(pattern, pg[i].words[j])}
    IN (/\ ScriptScanReached
        /\ hits # {}
        /\ \E j \in DOMAIN pg[First(hits)].words :
              PatternMatches("ext", pg[First(hits)].words[j])) =>
          /\ res.extracted.by = "d"
          /\ IsExtMatchIn(res.extracted.link, pg, First(hits))
          /\ \A j \in DOMAIN pg[First(hits)].words :
                (/\ PatternMatches("ext", pg[First(hits)].words[j])
                 /\ \A j2 \in 1..(j - 1) :
                       ~PatternMatches("ext", pg[First(hits)].words[j2])) =>
                   res.extracted.link = [pg[First(hits)].words[j] EXCEPT !.query = FALSE]

\* a script holds a 'stream' URL and after it an .mp3 URL with a query string:
\* the .mp3 URL, without its query string, was extracted
C23_Witness ==
    /\ ScriptScanReached
    /\ res.extracted.by = "d"
    /\ \E i \in ScriptsOf(res.response.page) :
          /\ Len(res.response.page[i].words) = 2
          /\ res.response.page[i].words[1].kw = "stream"
          /\ res.response.page[i].words[2].query
          /\ res.extracted.link = [res.response.page[i].words[2] EXCEPT !.query = FALSE]
    /\ res.pc = "done"

\* the step (e) of extract_direct_stream_url was reached on a fetched page
ContentScanReached ==
    /\ ScriptScanReached
    /\ ~script_scan(res.response.page).some

\* C24 as stated: on the text the scan of the page source (e) runs on, it
\* finds a URL iff the scan of the scripts (d) would find one in that text,
\* and both give the same URL.
C24_ContentScanIsScriptScan ==
    ContentScanReached =>
       LET text == page_text(res.response.page)
       IN /\ res.extracted.some <=> scan(ScriptPatterns, text) # NoLink
          /\ res.extracted.some => res.extracted.link = scan(ScriptPatterns, text)

\* C24, amended: (e) scans with the first three patterns of (d) (extension,
\* stream, listen): when it finds a URL the scan of (d) on the same text gives
\* the same URL, and it finds none iff no URL of the text matches one of these
\* three patterns, though 'radio' or 'live' of (d) may match.
C24_ContentScanIsScriptScanOfThree ==
    ContentScanReached =>
       LET text == page_text(res.response.page)
       IN /\ res.extracted.some =>
                /\ res.extracted.by = "e"
                /\ res.extracted.link = scan(ScriptPatterns, text)
          /\ res.extracted.some <=>
                \E j \in DOMAIN text : \E pattern \in {"ext", "stream", "listen"} :
                   PatternMatches(pattern, text[j])

\* the page source holds a 'stream' URL in an iframe and after it an .mp3 URL
\* in plain text: (e) gave the .mp3 URL
C24_Witness ==
    /\ ContentScanReached
    /\ res.extracted.by = "e"
    /\ Len(page_text(res.response.page)) = 2
    /\ page_text(res.response.page)[1].kw = "stream"
    /\ res.extracted.link = page_text(res.response.page)[2]

\* the URL record_stream has after its HTML stage
AfterHtml ==
    IF IsHtml(res.catalog_url) /\ Truthy(res.extracted)
    THEN UrlOf(res.extracted.link)
    ELSE res.catalog_url

\* C30: record_stream resolves in one direction and one level deep. It makes
\* at most one request for an HTML page, and only for a catalog URL that is
\* one, and at most one request for a playlist. A URL extracted from the page
\* whose path ends in .pls or .m3u is fetched and parsed as a playlist in the
\* same call. The URL ffmpeg is started on is the one the playlist block
\* leaves, as it is, also when that URL is itself a playlist or an HTML page.
C30_StagesChainOnce ==
    /\ res.page_fetches <= 1 /\ res.playlist_fetches <= 1
    /\ res.page_fetches = 1 => IsHtml(res.catalog_url)
    /\ res.pc \in {"encode", "done"} =>
          /\ (AfterHtml.ext \in {".pls", ".m3u"} /\ AfterHtml.scheme \in {"http", "https"}) =>
                res.playlist_fetches = 1
          /\ res.url = resolve_playlist(AfterHtml, res.playlist).url
    /\ res.ffmpeg_url # NoUrl =>
          res.ffmpeg_url = resolve_playlist(AfterHtml, res.playlist).url

\* an HTML page gave the URL of a .pls, the playlist gave the URL of another
\* playlist or of an HTML page, and ffmpeg ran on that URL after one request
\* of each kind
C30_Witness ==
    /\ res.pc = "done"
    /\ IsHtml(res.catalog_url)
    /\ AfterHtml.ext = ".pls"
    /\ res.page_fetches = 1 /\ res.playlist_fetches = 1
    /\ res.ffmpeg_url # AfterHtml
    /\ res.ffmpeg_url.ext \in {".pls", ".html"}

\* C17: for a catalog URL whose path ends in .pls, .m3u or .m3u8, when the
\* playlist is not fetched, or the fetch fails, or no line of the body
\* matches (.pls: a file1= line with an http value; .m3u: a line starting with
\* http), the playlist block raises nothing and the URL record_stream goes
\* on with, and hands to ffmpeg, is the catalog URL unchanged.
C17_PlaylistFallbackKeepsUrl ==
    (/\ res.catalog_url.ext \in {".pls", ".m3u", ".m3u8"}
     /\ res.pc \in {"encode", "done", "raised"}
     /\ \/ res.playlist_fetches = 0
        \/ res.playlist.error # "none"
        \/ /\ res.catalog_url.ext = ".pls"
           /\ \A i \in DOMAIN res.playlist.lines :
                 ~(res.playlist.lines[i].key = "file1"
                   /\ res.playlist.lines[i].val \in {"http", "HTTP"})
        \/ /\ res.catalog_url.ext = ".m3u"
           /\ \A i \in DOMAIN res.playlist.lines :
                 ~(res.playlist.lines[i].key = "" /\ res.playlist.lines[i].val = "http")) =>
       /\ res.url = res.catalog_url
       /\ res.exc \in {"none", "CalledProcessError"}
       /\ res.ffmpeg_url \in {NoUrl, res.catalog_url}

\* a .pls was fetched that holds File1= with a relative value and File2= with
\* an http value: ffmpeg was started on the catalog URL
C17_Witness ==
    /\ res.catalog_url.ext = ".pls"
    /\ res.playlist_fetches = 1
    /\ Len(res.playlist.lines) = 2
    /\ res.playlist.lines[1].key = "file1" /\ res.playlist.lines[1].val = "relative"
    /\ res.playlist.lines[2].key = "file2" /\ res.playlist.lines[2].val = "http"
    /\ res.pc = "done"
    /\ res.ffmpeg_url = res.catalog_url

---------------------------------------------------------------------------
(* Claims on the batch of record_city, the log and the order of the
   pipeline, checked under Spec *)

\* C18: in every run of record_city each station whose probe returned alive
\* is taken by the loop exactly once, whatever happened to the stations
\* before it (dead probe, no stream URL found, encoder error, log error);
\* and no run of a job function removes a job from schedule.jobs, changes a
\* job other than the one that ran, or takes another due job out of the round.
C18_StationsAreIsolated ==
    [][IsRun =>
         /\ ran'.kind = "record_city" =>
               /\ {hist'.processed[k] : k \in DOMAIN hist'.processed} = hist'.up
               /\ Len(hist'.processed) = Cardinality(hist'.up)
         /\ Len(jobs') >= Len(jobs)
         /\ \A i \in 1..Len(jobs) :
               IF i = Head(loop.runnable)
               THEN jobs'[i].id = jobs[i].id
               ELSE jobs'[i] = jobs[i]
         /\ loop'.runnable = Tail(loop.runnable)]_vars

\* record_city ran for two stations found alive: the recording of the first
\* failed and the second was recorded all the same, while another job was
\* due in the same round
C18_Witness ==
    /\ ran.kind = "record_city"
    /\ Len(hist.processed) = 2
    /\ consec[hist.processed[1]] >= 1
    /\ consec[hist.processed[2]] = 0
    /\ monitor.last_verification[hist.processed[2]] = now
    /\ loop.runnable # << >>

\* the number of rows of a kind in the log
RowsOfKind(kind) == Cardinality({i \in DOMAIN log.rows : log.rows[i].kind = kind})

C20_ProbesResolvedUrl ==
    \A sid \in DOMAIN hist.probed :
       IsHtml(get_all_stations[sid]) => hist.probed[sid] # get_all_stations[sid]

\* the step is a run of record_city
IsRecordCity == IsRun /\ ran'.kind = "record_city"

\* the stations the loop of the run took
Processed(h) == {h.processed[k] : k \in DOMAIN h.processed}

\* C26: in a run of record_city, a station for which record_stream finds no
\* stream URL in its page (RuntimeError) is skipped: ffmpeg is not run for it
\* and nothing is saved or logged for it; the error is caught in the loop, so
\* the station is marked failed, every station found alive is taken by the
\* loop (each one either ran the encoder or was skipped this way) and one
\* recording is counted per file saved.
C26_UnresolvedStationIsSkipped ==
    [][IsRecordCity =>
         /\ \A sid \in hist'.unresolved :
               /\ sid \notin hist'.encoded
               /\ sid \notin hist'.saved
               /\ Status(monitor', sid) = "Failed"
               /\ FailureCount(monitor', sid) = FailureCount(monitor, sid) + 1
         /\ hist'.unresolved \cup hist'.encoded = hist'.up
         /\ Processed(hist') = hist'.up
         /\ hist'.recordings = hist.recordings + Cardinality(hist'.saved)
         /\ Len(log'.rows) <= Len(log.rows) + 1 + Cardinality(hist'.saved)
      ]_vars

\* record_city took two stations: no stream URL was found for the first, and
\* the second was recorded
C26_Witness ==
    /\ ran.kind = "record_city"
    /\ Len(hist.processed) = 2
    /\ hist.processed[1] \in hist.unresolved
    /\ hist.processed[2] \in hist.saved

\* C27 as stated: after a run of record_city a station the loop took is
\* Working iff record_stream returned a file for it, and no retry is
\* scheduled for a station whose file was saved.
C27_WorkingIffRecorded ==
    [][IsRecordCity =>
         /\ \A sid \in Processed(hist') :
               Status(monitor', sid) = "Working" <=> sid \in hist'.saved
         /\ \A k \in (Len(jobs) + 1)..Len(jobs') : jobs'[k].sid \notin hist'.saved
      ]_vars

\* C28 as stated: record_city(city), for a key city of stations_by_city as
\* get_cities returns it, looks up the stations stored under that key.
C28_CityKeyFindsItsStations ==
    hist.city # "none" =>
       /\ hist.city \in DOMAIN stations_by_city
       /\ hist.stations = DOMAIN stations_by_city[hist.city]

\* C29: verify_stations_health inside record_city does not touch the
\* StationMonitor: a station of the city whose probe returned dead is not
\* taken by the loop (no resolution, no encoder) and has after the run the
\* entries in working_stations, failed_stations and last_verification it had
\* before; a run that finds no station alive leaves the monitor, the log and
\* the job list as they were, but for the next_run and the run count that
\* the scheduler keeps of the job that ran.
C29_LivenessCheckLeavesMonitor ==
    [][IsRecordCity =>
         /\ \A sid \in hist'.stations \ hist'.up :
               /\ sid \notin Processed(hist')
               /\ sid \notin hist'.encoded \cup hist'.unresolved
               /\ Status(monitor', sid) = Status(monitor, sid)
               /\ FailureCount(monitor', sid) = FailureCount(monitor, sid)
               /\ Get(monitor'.last_verification, sid, -1)
                     = Get(monitor.last_verification, sid, -1)
         /\ hist'.up = {} =>
               /\ monitor' = monitor
               /\ log' = log
               /\ next_job_id' = next_job_id
               /\ Len(jobs') = Len(jobs)
               /\ \A k \in 1..Len(jobs) :
                     jobs'[k] = [jobs[k] EXCEPT !.next_run = jobs'[k].next_run,
                                               !.runs = jobs'[k].runs,
                                               !.first_run = jobs'[k].first_run,
                                               !.ran_at = jobs'[k].ran_at]
               /\ \A k \in 1..Len(jobs) :
                     jobs[k].id # ran'.id => jobs'[k] = jobs[k]
      ]_vars

\* record_city ran for a city of two stations: one was Working before, its
\* probe returned dead and it is Working still, while the other was recorded
C29_Witness ==
    /\ ran.kind = "record_city"
    /\ Cardinality(hist.stations) = 2
    /\ hist.saved # {}
    /\ \E sid \in hist.stations \ hist.up :
          /\ Status(monitor, sid) = "Working"
          /\ monitor.last_verification[sid] = 0

=============================================================================
